---- MODULE Spec2Model ----
(***************************************************************************)
(* Model of src/gui/guiGame.ts of the phd-game repository:                 *)
(*   - GameEventLoader (loadFromString, parseEvents, parseEvent),          *)
(*   - the event scheduler the loaded GameEvent values are written for     *)
(*     (eligibility, weighted selection, execution, fired-set),            *)
(*   - GuiGameWindow.displayMessage / displayChoices and the clicks that   *)
(*     resolve their promises.                                             *)
(* Three specifications share the variables: Spec (the loader), SchedSpec  *)
(* (the scheduler over a loaded document) and GuiSpec (the prompts).       *)
(***************************************************************************)
EXTENDS Integers, Sequences, FiniteSets, TLC

VARIABLES
    input,             \* loader: the document handed to the loader
    outcome,           \* loader: what the call returned or threw
    events,            \* scheduler: the GameEvent[] it holds
    fired,             \* scheduler: the fired-set F (event ids)
    hope,              \* scheduler: the game state variable player.hope
    triggers,          \* scheduler: trigger occasions processed so far
    lastRun,           \* scheduler: what the last trigger occasion did
    errors,            \* scheduler: ActionExecutionErrors surfaced so far
    prompts,           \* gui: one entry per display call, with its promise
    choicesContainer,  \* gui: children of #choices_container, in DOM order
    messageContainer,  \* gui: prompt whose text #message_container shows, 0 if none
    clicks             \* gui: the buttons clicked so far, in order

loaderVars == <<input, outcome>>
schedVars == <<events, fired, hope, triggers, lastRun, errors>>
guiVars == <<prompts, choicesContainer, messageContainer, clicks>>
vars == <<input, outcome, events, fired, hope, triggers, lastRun, errors,
          prompts, choicesContainer, messageContainer, clicks>>

(***************************************************************************)
(* Bounds of the model.                                                    *)
(***************************************************************************)
MaxDocLen == 3
MaxEvents == 2
MaxTriggers == 3
MaxHope == 2
MaxPrompts == 2
MaxChoices == 2

Min(S) == CHOOSE x \in S : \A y \in S : x <= y

(***************************************************************************)
(* Untyped values of a parsed content document.  Every value carries its   *)
(* JavaScript type tag; the fields its type does not use stay at a fixed   *)
(* filler.  An array holds descriptors or ids, each named by a string.     *)
(***************************************************************************)
JsVal(t, b, n, s, items) == [t |-> t, b |-> b, n |-> n, s |-> s, items |-> items]
JsUndefined == JsVal("undefined", FALSE, 0, "", <<>>)
JsNull == JsVal("null", FALSE, 0, "", <<>>)
JsBoolean(b) == JsVal("boolean", b, 0, "", <<>>)
JsNumber(n) == JsVal("number", FALSE, n, "", <<>>)
JsString(s) == JsVal("string", FALSE, 0, s, <<>>)
JsArray(items) == JsVal("array", FALSE, 0, "", items)

\* A document root: the same tags, with the records of an array root.
JsDoc(t, b, n, s, recs) == [t |-> t, b |-> b, n |-> n, s |-> s, recs |-> recs]
JsEmptyObject == JsDoc("object", FALSE, 0, "", <<>>)
JsArrayDoc(recs) == JsDoc("array", FALSE, 0, "", recs)

\* !!v
ToBoolean(v) ==
    CASE v.t = "undefined" -> FALSE
      [] v.t = "null" -> FALSE
      [] v.t = "boolean" -> v.b
      [] v.t = "number" -> v.n # 0
      [] v.t = "string" -> v.s # ""
      [] OTHER -> TRUE

\* v == undefined (loose equality: null too)
IsNullish(v) == v.t \in {"undefined", "null"}

\* Array.isArray(v)
IsArray(v) == v.t = "array"

(***************************************************************************)
(* Condition and action factories (./conditions, ./actions): a descriptor  *)
(* of a registered type becomes an instance, any other is refused.         *)
(***************************************************************************)
ConditionTypes == {"always", "never", "hopeLow"}
ActionTypes == {"noop", "gainHope", "loseHope", "fault"}

Condition(type) == [kind |-> "condition", type |-> type]
Action(type) == [kind |-> "action", type |-> type]

conditionFromJSONObject(item) ==
    IF item \in ConditionTypes
    THEN [ok |-> TRUE, value |-> Condition(item), error |-> ""]
    ELSE [ok |-> FALSE, value |-> Condition(""), error |-> "Unknown condition type."]

actionFromJSONObject(item) ==
    IF item \in ActionTypes
    THEN [ok |-> TRUE, value |-> Action(item), error |-> ""]
    ELSE [ok |-> FALSE, value |-> Action(""), error |-> "Unknown action type."]

\* items.map(item => factory.fromJSONObject(item)): left to right, the first
\* refusal is thrown out of the map.
mapConditions(items) ==
    LET rs == [i \in 1..Len(items) |-> conditionFromJSONObject(items[i])]
        bad == {i \in 1..Len(items) : ~rs[i].ok}
    IN  IF bad = {}
        THEN [ok |-> TRUE, values |-> [i \in 1..Len(items) |-> rs[i].value], error |-> ""]
        ELSE [ok |-> FALSE, values |-> <<>>, error |-> rs[Min(bad)].error]

mapActions(items) ==
    LET rs == [i \in 1..Len(items) |-> actionFromJSONObject(items[i])]
        bad == {i \in 1..Len(items) : ~rs[i].ok}
    IN  IF bad = {}
        THEN [ok |-> TRUE, values |-> [i \in 1..Len(items) |-> rs[i].value], error |-> ""]
        ELSE [ok |-> FALSE, values |-> <<>>, error |-> rs[Min(bad)].error]

(***************************************************************************)
(* GameEvent (./core).  The constructor takes the eight fields of the data *)
(* model; an argument the caller leaves out arrives as undefined.          *)
(***************************************************************************)
GameEvent(id, trigger, conditions, actions, probability, exclusions, once, disabled) ==
    [id |-> id, trigger |-> trigger, conditions |-> conditions, actions |-> actions,
     probability |-> probability, exclusions |-> exclusions, once |-> once,
     disabled |-> ToBoolean(disabled)]

NoEvent == GameEvent(JsUndefined, JsUndefined, <<>>, <<>>, JsUndefined, <<>>, FALSE, JsUndefined)

(***************************************************************************)
(* GameEventLoader.                                                        *)
(***************************************************************************)
ErrMissingId == "Missing event id."
ErrMissingTrigger == "Missing event trigger."
ErrMissingActions == "Missing actions."
ErrNotArray == "Expecting an array of event definitions."

Thrown(msg) == [ok |-> FALSE, event |-> NoEvent, error |-> msg]
Returned(e) == [ok |-> TRUE, event |-> e, error |-> ""]

\* Mutant: the id check reads the trigger key.
missingId_ReadsTrigger(obj) == IsNullish(obj.trigger)

\* obj['id'] == undefined
missingId(obj) == IsNullish(obj.id)

\* obj['trigger'] == undefined
missingTrigger(obj) == IsNullish(obj.trigger)

\* Mutant: an empty actions array is refused too.
missingActions_RefusesEmpty(obj) ==
    ~IsArray(obj.actions) \/ Len(obj.actions.items) = 0

\* !Array.isArray(obj['actions'])
missingActions(obj) == ~IsArray(obj.actions)

parseEvent(obj) ==
    IF missingId(obj) THEN Thrown(ErrMissingId)
    ELSE IF missingTrigger(obj) THEN Thrown(ErrMissingTrigger)
    ELSE
      LET conditions == IF IsArray(obj.conditions)
                        THEN mapConditions(obj.conditions.items)
                        ELSE [ok |-> TRUE, values |-> <<>>, error |-> ""]
      IN
      IF ~conditions.ok THEN Thrown(conditions.error)
      ELSE
        LET probability == IF IsNullish(obj.probability) THEN JsNumber(1)
                           ELSE obj.probability
            exclusions == IF IsArray(obj.exclusions) THEN obj.exclusions.items
                          ELSE <<>>
        IN
        IF missingActions(obj) THEN Thrown(ErrMissingActions)
        ELSE
          LET actions == mapActions(obj.actions.items)
              once == ToBoolean(obj.once)
              disabled == ToBoolean(obj.disabled)
          IN
          IF ~actions.ok THEN Thrown(actions.error)
          ELSE \* disabled is computed and not handed to the constructor
               Returned(GameEvent(obj.id, obj.trigger, conditions.values,
                                  actions.values, probability, exclusions, once,
                                  JsUndefined))

ThrownList(msg) == [ok |-> FALSE, events |-> <<>>, error |-> msg]
ReturnedList(es) == [ok |-> TRUE, events |-> es, error |-> ""]

\* Mutant: best-effort load, the elements that fail are left out.
RECURSIVE KeepParsed(_)
KeepParsed(recs) ==
    IF recs = <<>> THEN <<>>
    ELSE LET r == parseEvent(Head(recs))
         IN  IF r.ok THEN <<r.event>> \o KeepParsed(Tail(recs))
             ELSE KeepParsed(Tail(recs))

parseEvents_BestEffort(obj) ==
    IF ~IsArray(obj) THEN ThrownList(ErrNotArray)
    ELSE ReturnedList(KeepParsed(obj.recs))

\* obj.map(item => this.parseEvent(item)): the first throw leaves the map.
parseEvents(obj) ==
    IF ~IsArray(obj) THEN ThrownList(ErrNotArray)
    ELSE
      LET rs == [i \in 1..Len(obj.recs) |-> parseEvent(obj.recs[i])]
          bad == {i \in 1..Len(obj.recs) : ~rs[i].ok}
      IN  IF bad = {}
          THEN ReturnedList([i \in 1..Len(obj.recs) |-> rs[i].event])
          ELSE ThrownList(rs[Min(bad)].error)

\* Mutant: empty text loads as an empty list of events.
loadFromString_EmptyList(y) ==
    parseEvents(IF ToBoolean(y) THEN y ELSE JsArrayDoc(<<>>))

\* parseEvents(safeLoad(s) || {}); y is the tree safeLoad(s) yields.
loadFromString(y) ==
    parseEvents(IF ToBoolean(y) THEN y ELSE JsEmptyObject)

(***************************************************************************)
(* Documents the loader is run on.                                         *)
(***************************************************************************)
Record(id, trigger, conditions, probability, exclusions, actions, once, disabled, extra) ==
    [id |-> id, trigger |-> trigger, conditions |-> conditions,
     probability |-> probability, exclusions |-> exclusions, actions |-> actions,
     once |-> once, disabled |-> disabled, extra |-> extra]

IdValues == {JsUndefined, JsNull, JsString("e1")}
TriggerValues == {JsUndefined, JsString("monthStart")}
ConditionsValues == {JsUndefined, JsArray(<<"hopeLow">>), JsArray(<<"always", "bogus">>)}
ProbabilityValues == {JsUndefined, JsNumber(2)}
ExclusionsValues == {JsUndefined, JsArray(<<"e2">>)}
ActionsValues == {JsUndefined, JsString("noop"), JsArray(<<>>), JsArray(<<"noop">>),
                  JsArray(<<"gainHope", "bogus">>)}
OnceValues == {JsUndefined, JsString("yes"), JsNumber(0)}
DisabledValues == {JsUndefined, JsBoolean(TRUE), JsBoolean(FALSE)}
ExtraValues == {JsUndefined, JsString("note")}

Records ==
    {Record(i, t, c, p, x, a, o, d, e) :
        i \in IdValues, t \in TriggerValues, c \in ConditionsValues,
        p \in ProbabilityValues, x \in ExclusionsValues, a \in ActionsValues,
        o \in OnceValues, d \in DisabledValues, e \in ExtraValues}

\* Records a longer document is made of.
PoolRecords ==
    {Record(JsString("e1"), JsString("monthStart"), JsUndefined, JsUndefined,
            JsUndefined, JsArray(<<"noop">>), JsUndefined, JsUndefined, JsUndefined),
     Record(JsString("e2"), JsString("yearStart"), JsArray(<<"hopeLow">>), JsNumber(2),
            JsArray(<<"e1">>), JsArray(<<"gainHope", "noop">>), JsBoolean(TRUE),
            JsBoolean(TRUE), JsString("note")),
     Record(JsUndefined, JsString("monthStart"), JsUndefined, JsUndefined,
            JsUndefined, JsArray(<<"noop">>), JsUndefined, JsUndefined, JsUndefined),
     Record(JsString("e3"), JsString("monthStart"), JsUndefined, JsUndefined,
            JsUndefined, JsArray(<<"bogus">>), JsUndefined, JsUndefined, JsUndefined),
     Record(JsString("e4"), JsString("monthStart"), JsUndefined, JsUndefined,
            JsUndefined, JsArray(<<>>), JsUndefined, JsUndefined, JsUndefined)}

SeqsUpTo(S, n) == UNION {[1..k -> S] : k \in 0..n}

NonArrayDocs ==
    {JsDoc("undefined", FALSE, 0, "", <<>>), JsDoc("null", FALSE, 0, "", <<>>),
     JsEmptyObject, JsDoc("string", FALSE, 0, "events", <<>>),
     JsDoc("string", FALSE, 0, "", <<>>), JsDoc("number", FALSE, 0, "", <<>>),
     JsDoc("number", FALSE, 7, "", <<>>), JsDoc("boolean", FALSE, 0, "", <<>>),
     JsDoc("boolean", TRUE, 0, "", <<>>)}

Documents ==
    NonArrayDocs
    \cup {JsArrayDoc(<<r>>) : r \in Records}
    \cup {JsArrayDoc(rs) : rs \in SeqsUpTo(PoolRecords, MaxDocLen)}

(***************************************************************************)
(* Loader state machine: one call on the document chosen initially.        *)
(***************************************************************************)
NoOutcome == [call |-> "none", item |-> 0, ok |-> FALSE, events |-> <<>>, error |-> ""]

SchedIdle ==
    /\ events = <<>>
    /\ fired = {}
    /\ hope = 0
    /\ triggers = 0
    /\ lastRun = [event |-> 0, trigger |-> "", executed |-> <<>>, raised |-> FALSE,
                  errorId |-> JsUndefined, errorIndex |-> 0, hopeBefore |-> 0]
    /\ errors = 0

GuiIdle ==
    /\ prompts = <<>>
    /\ choicesContainer = <<>>
    /\ messageContainer = 0
    /\ clicks = <<>>

LoaderIdle ==
    /\ input = JsEmptyObject
    /\ outcome = NoOutcome

Init ==
    /\ input \in Documents
    /\ outcome = NoOutcome
    /\ SchedIdle
    /\ GuiIdle

ParseEvents ==
    /\ outcome.call = "none"
    /\ LET r == parseEvents(input)
       IN  outcome' = [call |-> "parseEvents", item |-> 0, ok |-> r.ok,
                       events |-> r.events, error |-> r.error]
    /\ UNCHANGED <<input, schedVars, guiVars>>

LoadFromString ==
    /\ outcome.call = "none"
    /\ LET r == loadFromString(input)
       IN  outcome' = [call |-> "loadFromString", item |-> 0, ok |-> r.ok,
                       events |-> r.events, error |-> r.error]
    /\ UNCHANGED <<input, schedVars, guiVars>>

ParseEvent ==
    /\ outcome.call = "none"
    /\ \E i \in 1..Len(input.recs) :
         LET r == parseEvent(input.recs[i])
         IN  outcome' = [call |-> "parseEvent", item |-> i, ok |-> r.ok,
                         events |-> IF r.ok THEN <<r.event>> ELSE <<>>,
                         error |-> r.error]
    /\ UNCHANGED <<input, schedVars, guiVars>>

Next == ParseEvents \/ LoadFromString \/ ParseEvent

Spec == Init /\ [][Next]_vars

(***************************************************************************)
(* Loader properties.                                                      *)
(***************************************************************************)
LoadCalls == {"parseEvents", "loadFromString"}

\* What the data model asks of the event built from a record: values kept,
\* descriptors turned into instances in order, defaults for absent fields.
Expected(rec) ==
    [id |-> rec.id,
     trigger |-> rec.trigger,
     conditions |-> IF IsArray(rec.conditions)
                    THEN [i \in 1..Len(rec.conditions.items) |->
                             Condition(rec.conditions.items[i])]
                    ELSE <<>>,
     actions |-> [i \in 1..Len(rec.actions.items) |-> Action(rec.actions.items[i])],
     probability |-> IF IsNullish(rec.probability) THEN JsNumber(1) ELSE rec.probability,
     exclusions |-> IF IsArray(rec.exclusions) THEN rec.exclusions.items ELSE <<>>,
     once |-> ToBoolean(rec.once),
     disabled |-> ToBoolean(rec.disabled)]

DescriptorsAccepted(v, types) ==
    IsArray(v) => \A i \in 1..Len(v.items) : v.items[i] \in types

ConditionsAccepted(rec) == DescriptorsAccepted(rec.conditions, ConditionTypes)
ActionsAccepted(rec) == DescriptorsAccepted(rec.actions, ActionTypes)

HasRequired(rec) ==
    ~IsNullish(rec.id) /\ ~IsNullish(rec.trigger) /\ IsArray(rec.actions)

ValidRecord(rec) == HasRequired(rec) /\ ConditionsAccepted(rec) /\ ActionsAccepted(rec)

ValidDocument(doc) ==
    IsArray(doc) /\ \A i \in 1..Len(doc.recs) : ValidRecord(doc.recs[i])

\* The record a parseEvent call was made on.
CalledRecord == input.recs[outcome.item]

\* C1: for a valid document parseEvents returns one GameEvent per record, in
\* order, each with the record's field values and the defaults for the absent
\* fields (disabled among them).
C1_FieldsPreserved ==
    (outcome.call \in LoadCalls /\ ValidDocument(input)) =>
        /\ outcome.ok
        /\ Len(outcome.events) = Len(input.recs)
        /\ \A i \in 1..Len(input.recs) : outcome.events[i] = Expected(input.recs[i])

\* All of C1 but the disabled field: what the loader does keep.
LoaderKeepsAllButDisabled ==
    (outcome.call \in LoadCalls /\ ValidDocument(input)) =>
        /\ outcome.ok
        /\ Len(outcome.events) = Len(input.recs)
        /\ \A i \in 1..Len(input.recs) :
             [outcome.events[i] EXCEPT !.disabled = FALSE]
                 = [Expected(input.recs[i]) EXCEPT !.disabled = FALSE]

\* C3: parseEvents on a non-array document (the empty object loadFromString
\* puts in place of empty text included) throws the array-expected error and
\* returns nothing.
C3_NonArrayRejected ==
    (outcome.call \in LoadCalls /\ ~IsArray(input)) =>
        /\ ~outcome.ok
        /\ outcome.error = ErrNotArray
        /\ outcome.events = <<>>

C3_Witness ==
    /\ outcome.call = "loadFromString"
    /\ input.t = "undefined"
    /\ ~outcome.ok
    /\ outcome.error = ErrNotArray

\* C4: loading is fail-fast: when parseEvent fails on any element, whatever
\* its position, the load fails and returns no events.
C4_FailFast ==
    (/\ outcome.call \in LoadCalls
     /\ IsArray(input)
     /\ \E i \in 1..Len(input.recs) : ~parseEvent(input.recs[i]).ok) =>
        /\ ~outcome.ok
        /\ outcome.events = <<>>

C4_Witness ==
    /\ outcome.call = "parseEvents"
    /\ Len(input.recs) >= 2
    /\ \A i \in 1..(Len(input.recs) - 1) : ValidRecord(input.recs[i])
    /\ ~ValidRecord(input.recs[Len(input.recs)])
    /\ ~outcome.ok
    /\ outcome.events = <<>>

DefaultsApplied(rec, e) ==
    /\ IsNullish(rec.probability) => e.probability = JsNumber(1)
    /\ rec.conditions = JsUndefined => e.conditions = <<>>
    /\ rec.exclusions = JsUndefined => e.exclusions = <<>>
    /\ rec.once = JsUndefined => e.once = FALSE
    /\ rec.disabled = JsUndefined => e.disabled = FALSE

\* C5 as stated: a record missing id, trigger or actions fails with the error
\* naming the first missing field (id, then trigger, then actions); a record
\* with all three (and descriptors the factories accept) succeeds, extra keys
\* or not, with the defaults applied.
C5_MissingFieldNamed ==
    outcome.call = "parseEvent" =>
        LET rec == CalledRecord IN
        /\ IsNullish(rec.id) => (~outcome.ok /\ outcome.error = ErrMissingId)
        /\ (~IsNullish(rec.id) /\ IsNullish(rec.trigger)) =>
               (~outcome.ok /\ outcome.error = ErrMissingTrigger)
        /\ (~IsNullish(rec.id) /\ ~IsNullish(rec.trigger) /\ ~IsArray(rec.actions)) =>
               (~outcome.ok /\ outcome.error = ErrMissingActions)
        /\ ValidRecord(rec) =>
               (outcome.ok /\ DefaultsApplied(rec, outcome.events[1]))

\* C5 amended: the conditions are built before actions is looked at, so the
\* missing-actions error needs the condition descriptors to be accepted, and
\* success needs every descriptor to be accepted; a refused descriptor throws
\* the factory's error instead.
C5_MissingFieldNamedAmended ==
    outcome.call = "parseEvent" =>
        LET rec == CalledRecord IN
        /\ IsNullish(rec.id) => (~outcome.ok /\ outcome.error = ErrMissingId)
        /\ (~IsNullish(rec.id) /\ IsNullish(rec.trigger)) =>
               (~outcome.ok /\ outcome.error = ErrMissingTrigger)
        /\ (/\ ~IsNullish(rec.id) /\ ~IsNullish(rec.trigger)
            /\ ~IsArray(rec.actions) /\ ConditionsAccepted(rec)) =>
               (~outcome.ok /\ outcome.error = ErrMissingActions)
        /\ (~IsNullish(rec.id) /\ ~IsNullish(rec.trigger) /\ ~ConditionsAccepted(rec)) =>
               (~outcome.ok /\ outcome.error = "Unknown condition type.")
        /\ (HasRequired(rec) /\ ConditionsAccepted(rec) /\ ~ActionsAccepted(rec)) =>
               (~outcome.ok /\ outcome.error = "Unknown action type.")
        /\ ValidRecord(rec) =>
               (outcome.ok /\ DefaultsApplied(rec, outcome.events[1]))

C5_Witness ==
    /\ outcome.call = "parseEvent"
    /\ ValidRecord(CalledRecord)
    /\ CalledRecord.extra = JsString("note")
    /\ CalledRecord.probability = JsUndefined
    /\ CalledRecord.once = JsUndefined
    /\ outcome.ok
    /\ outcome.events[1].probability = JsNumber(1)
    /\ outcome.events[1].once = FALSE

\* C6 as stated: every GameEvent the loader returns has at least one action.
C6_ActionsNonEmpty ==
    outcome.ok => \A i \in 1..Len(outcome.events) : Len(outcome.events[i].actions) >= 1

\* C6 amended: the loader refuses a record whose actions is absent or not an
\* array, and accepts an empty actions array: the event then has no actions.
\* Every returned event has one action per descriptor of its record.
C6_ActionsArrayRequired ==
    outcome.call = "parseEvent" =>
        LET rec == CalledRecord IN
        /\ ~IsArray(rec.actions) => ~outcome.ok
        /\ outcome.ok => Len(outcome.events[1].actions) = Len(rec.actions.items)
        /\ (ValidRecord(rec) /\ rec.actions = JsArray(<<>>)) =>
               (outcome.ok /\ outcome.events[1].actions = <<>>)

C6_Witness ==
    /\ outcome.call = "parseEvent"
    /\ CalledRecord.actions = JsArray(<<>>)
    /\ outcome.ok
    /\ outcome.events[1].actions = <<>>

(***************************************************************************)
(* Event scheduler: eligibility, selection, execution and the fired-set.   *)
(* The game state the conditions read and the actions write is the single  *)
(* bounded variable player.hope.                                           *)
(***************************************************************************)
Triggers == {"monthStart", "yearStart"}

\* condition.evaluate(state)
evaluate(c, h) ==
    CASE c.type = "always" -> TRUE
      [] c.type = "never" -> FALSE
      [] c.type = "hopeLow" -> h = 0
      [] OTHER -> FALSE

\* action.execute(state) of an action that does not fault
execute(a, h) ==
    CASE a.type = "gainHope" -> IF h < MaxHope THEN h + 1 ELSE h
      [] a.type = "loseHope" -> IF h > 0 THEN h - 1 ELSE h
      [] OTHER -> h

faults(a) == a.type = "fault"

\* Mutant: exclusions read as prerequisites.
eligible_ExclusionsAsPrerequisites(e, t, h, F) ==
    /\ e.trigger = JsString(t)
    /\ ~e.disabled
    /\ ~(e.once /\ e.id \in F)
    /\ \A i \in 1..Len(e.exclusions) : JsString(e.exclusions[i]) \in F
    /\ \A i \in 1..Len(e.conditions) : evaluate(e.conditions[i], h)

eligible(e, t, h, F) ==
    /\ e.trigger = JsString(t)
    /\ ~e.disabled
    /\ ~(e.once /\ e.id \in F)
    /\ \A i \in 1..Len(e.exclusions) : JsString(e.exclusions[i]) \notin F
    /\ \A i \in 1..Len(e.conditions) : evaluate(e.conditions[i], h)

eligibleSet(t, h, F) == {i \in 1..Len(events) : eligible(events[i], t, h, F)}

weight(e) == IF e.probability.t = "number" THEN e.probability.n ELSE 0

\* The events the weighted draw can return: those of positive weight, or
\* all of the eligible ones when no weight is positive.
drawable(E) ==
    IF \E i \in E : weight(events[i]) > 0
    THEN {i \in E : weight(events[i]) > 0}
    ELSE E

\* Actions in order from index k (0-based); a fault ends the run.
RECURSIVE runActions(_, _, _, _)
runActions(actions, k, h, done) ==
    IF k >= Len(actions)
    THEN [executed |-> done, hope |-> h, raised |-> FALSE, index |-> 0]
    ELSE IF faults(actions[k + 1])
         THEN [executed |-> done, hope |-> h, raised |-> TRUE, index |-> k]
         ELSE runActions(actions, k + 1, execute(actions[k + 1], h), Append(done, k))

\* Mutant: an event whose action faulted is not recorded as fired.
recordFired_OnlyOnSuccess(F, id, raised) == IF raised THEN F ELSE F \cup {id}

\* The event is recorded as fired, whether its actions completed or faulted.
recordFired(F, id, raised) == F \cup {id}

SchedRecords ==
    {Record(JsString("e1"), JsString("monthStart"), JsUndefined, JsNumber(1),
            JsUndefined, JsArray(<<"noop">>), JsUndefined, JsUndefined, JsUndefined),
     Record(JsString("e2"), JsString("monthStart"), JsUndefined, JsUndefined,
            JsArray(<<"e1">>), JsArray(<<"loseHope">>), JsUndefined, JsUndefined,
            JsUndefined),
     Record(JsString("e3"), JsString("monthStart"), JsUndefined, JsNumber(2),
            JsUndefined, JsArray(<<"gainHope", "fault", "gainHope">>),
            JsBoolean(TRUE), JsUndefined, JsUndefined),
     Record(JsString("e4"), JsString("monthStart"), JsUndefined, JsUndefined,
            JsUndefined, JsArray(<<"gainHope">>), JsUndefined, JsBoolean(TRUE),
            JsUndefined),
     Record(JsString("e5"), JsString("yearStart"), JsArray(<<"hopeLow">>), JsNumber(0),
            JsUndefined, JsArray(<<"gainHope">>), JsUndefined, JsUndefined,
            JsUndefined),
     Record(JsString("e6"), JsString("yearStart"), JsUndefined, JsNumber(0),
            JsArray(<<"e3">>), JsArray(<<"fault">>), JsNumber(1), JsUndefined,
            JsUndefined)}

SchedDocuments == {JsArrayDoc(rs) : rs \in SeqsUpTo(SchedRecords, MaxEvents) \ {<<>>}}

NoRun == [event |-> 0, trigger |-> "", executed |-> <<>>, raised |-> FALSE,
          errorId |-> JsUndefined, errorIndex |-> 0, hopeBefore |-> 0]

\* The scheduler holds the events the loader returned for the document.
SchedInit ==
    /\ input \in SchedDocuments
    /\ LET r == loadFromString(input)
       IN  /\ r.ok
           /\ outcome = [call |-> "loadFromString", item |-> 0, ok |-> r.ok,
                         events |-> r.events, error |-> r.error]
           /\ events = r.events
    /\ fired = {}
    /\ hope \in {0, 1}
    /\ triggers = 0
    /\ lastRun = NoRun
    /\ errors = 0
    /\ GuiIdle

\* One trigger occasion: at most one eligible event is drawn and its actions
\* run; a fault ends the event, which is still recorded as fired, and is
\* surfaced as an ActionExecutionError (event id, action index).
Trigger(t) ==
    /\ triggers < MaxTriggers
    /\ triggers' = triggers + 1
    /\ LET E == eligibleSet(t, hope, fired) IN
       IF E = {}
       THEN /\ lastRun' = [NoRun EXCEPT !.trigger = t, !.hopeBefore = hope]
            /\ UNCHANGED <<fired, hope, errors>>
       ELSE \E i \in drawable(E) :
              LET r == runActions(events[i].actions, 0, hope, <<>>) IN
              /\ hope' = r.hope
              /\ fired' = recordFired(fired, events[i].id, r.raised)
              /\ errors' = IF r.raised THEN errors + 1 ELSE errors
              /\ lastRun' = [event |-> i, trigger |-> t, executed |-> r.executed,
                             raised |-> r.raised,
                             errorId |-> IF r.raised THEN events[i].id ELSE JsUndefined,
                             errorIndex |-> r.index, hopeBefore |-> hope]
    /\ UNCHANGED <<input, outcome, events, guiVars>>

SchedNext == \E t \in Triggers : Trigger(t)

SchedSpec == SchedInit /\ [][SchedNext]_vars

(***************************************************************************)
(* Scheduler properties.                                                   *)
(***************************************************************************)
EventIds == {r.id : r \in SchedRecords}

\* C2: an event whose record says disabled: true (any truthy value) is never
\* selected, whatever the triggers and the game state.
C2_DisabledNeverSelected ==
    \A i \in 1..Len(input.recs) :
        ToBoolean(input.recs[i].disabled) => lastRun.event # i

\* C7: eligibility is monotonic in the fired-set: adding an id to F makes no
\* ineligible event eligible; the events it removes are once-events now in F
\* and events whose exclusions now meet F.
C7_EligibilityMonotonic ==
    \A i \in 1..Len(events) : \A t \in Triggers : \A x \in EventIds :
        LET e == events[i]
            before == eligible(e, t, hope, fired)
            after == eligible(e, t, hope, fired \cup {x})
        IN  /\ after => before
            /\ (before /\ ~after) =>
                   \/ e.once /\ e.id = x
                   \/ \E k \in 1..Len(e.exclusions) : JsString(e.exclusions[k]) = x

\* An event that the empty fired-set leaves eligible and the current one,
\* grown by firings, does not.
C7_Witness ==
    /\ fired # {}
    /\ \E i \in 1..Len(events) : \E t \in Triggers :
         /\ eligible(events[i], t, hope, {})
         /\ ~eligible(events[i], t, hope, fired)

\* The state after the first k actions of a sequence, none of them faulting.
RECURSIVE afterPrefix(_, _, _)
afterPrefix(actions, k, h) ==
    IF k = 0 THEN h
    ELSE execute(actions[k], afterPrefix(actions, k - 1, h))

\* C8: when an action of the chosen event faults, the actions before it have
\* run in order and none after it, the event id is in the fired-set, the
\* error names the event id and the index of the faulting action, and the
\* scheduler still takes every trigger.
C8_FaultMidEvent ==
    /\ lastRun.raised =>
         LET e == events[lastRun.event]
             k == lastRun.errorIndex
         IN  /\ k < Len(e.actions)
             /\ faults(e.actions[k + 1])
             /\ lastRun.executed = [j \in 1..k |-> j - 1]
             /\ \A j \in 1..k : ~faults(e.actions[j])
             /\ hope = afterPrefix(e.actions, k, lastRun.hopeBefore)
             /\ e.id \in fired
             /\ lastRun.errorId = e.id
             /\ errors >= 1
    /\ (errors >= 1 /\ triggers < MaxTriggers) =>
         \A t \in Triggers : ENABLED Trigger(t)

\* The fault of the second of three actions: the third did not run.
C8_Witness ==
    /\ lastRun.raised
    /\ lastRun.errorIndex = 1
    /\ Len(events[lastRun.event].actions) = 3
    /\ lastRun.executed = <<0>>
    /\ events[lastRun.event].id \in fired

\* A trigger occasion that fires an event after an earlier one faulted.
FiresAfterFault ==
    /\ errors >= 1
    /\ ~lastRun.raised
    /\ lastRun.event # 0

(***************************************************************************)
(* GuiGameWindow.displayMessage / displayChoices.  A prompt is one display *)
(* call with the promise it returned; a button is an <a> element the call  *)
(* appended to #choices_container, with the onclick handler it was given.  *)
(***************************************************************************)
Choices == {<<"yes", 1>>, <<"no", 2>>}
ChoiceLists == SeqsUpTo(Choices, MaxChoices)

\* pos: the index i of the loop that made the button (0: the confirm
\* button); dataChoiceNumber: its data-choice-number attribute; captured: the
\* choiceId its handler closes over.
Button(p, pos, choiceId) ==
    [prompt |-> p, pos |-> pos, dataChoiceNumber |-> choiceId, captured |-> choiceId]

Prompt(kind, choices) ==
    [kind |-> kind, choices |-> choices, state |-> "pending", value |-> 0,
     resolveCalls |-> 0]

\* resolve(v) of a promise: only the first call settles it.
resolve(pr, v) ==
    IF pr.state = "pending"
    THEN [pr EXCEPT !.state = "fulfilled", !.value = v, !.resolveCalls = @ + 1]
    ELSE [pr EXCEPT !.resolveCalls = @ + 1]

\* btnConfirm.remove()
removeConfirm(container, b) == SelectSeq(container, LAMBDA x : x # b)

\* Mutant: the handler empties the container.
removeChoiceButtons_ClearsContainer(container, p) == <<>>

\* for (btn of choiceButtons) btn.remove()
removeChoiceButtons(container, p) == SelectSeq(container, LAMBDA x : x.prompt # p)

\* Mutant: the handler resolves with the loop index.
resolvedChoice_LoopIndex(b) == b.pos - 1

\* resolve(choiceId)
resolvedChoice(b) == b.captured

GuiInit ==
    /\ LoaderIdle
    /\ SchedIdle
    /\ prompts = <<>>
    /\ choicesContainer = <<>>
    /\ messageContainer = 0
    /\ clicks = <<>>

DisplayMessage ==
    /\ Len(prompts) < MaxPrompts
    /\ LET p == Len(prompts) + 1 IN
       /\ messageContainer' = p
       /\ prompts' = Append(prompts, Prompt("message", <<>>))
       /\ choicesContainer' = Append(choicesContainer, Button(p, 0, 0))
    /\ UNCHANGED <<clicks, loaderVars, schedVars>>

DisplayChoices(choices) ==
    /\ Len(prompts) < MaxPrompts
    /\ LET p == Len(prompts) + 1 IN
       /\ messageContainer' = p
       /\ prompts' = Append(prompts, Prompt("choices", choices))
       /\ choicesContainer' =
              choicesContainer \o
              [i \in 1..Len(choices) |-> Button(p, i, choices[i][2])]
    /\ UNCHANGED <<clicks, loaderVars, schedVars>>

\* btnConfirm.onclick
ClickConfirm(k) ==
    LET b == choicesContainer[k] IN
    /\ prompts[b.prompt].kind = "message"
    /\ messageContainer' = 0
    /\ choicesContainer' = removeConfirm(choicesContainer, b)
    /\ prompts' = [prompts EXCEPT ![b.prompt] = resolve(@, 0)]
    /\ clicks' = Append(clicks, b)
    /\ UNCHANGED <<loaderVars, schedVars>>

\* btn.onclick of a choice button
ClickChoice(k) ==
    LET b == choicesContainer[k] IN
    /\ prompts[b.prompt].kind = "choices"
    /\ messageContainer' = 0
    /\ choicesContainer' = removeChoiceButtons(choicesContainer, b.prompt)
    /\ prompts' = [prompts EXCEPT ![b.prompt] = resolve(@, resolvedChoice(b))]
    /\ clicks' = Append(clicks, b)
    /\ UNCHANGED <<loaderVars, schedVars>>

GuiNext ==
    \/ DisplayMessage
    \/ \E choices \in ChoiceLists : DisplayChoices(choices)
    \/ \E k \in 1..Len(choicesContainer) : ClickConfirm(k)
    \/ \E k \in 1..Len(choicesContainer) : ClickChoice(k)

GuiSpec == GuiInit /\ [][GuiNext]_vars

(***************************************************************************)
(* Prompt properties.                                                      *)
(***************************************************************************)
ClicksOn(p) == {j \in 1..Len(clicks) : clicks[j].prompt = p}
ButtonsOf(p) == {j \in 1..Len(choicesContainer) : choicesContainer[j].prompt = p}

\* C9: a display promise is pending until a button of its prompt is clicked
\* and fulfilled from then on; displayChoices resolves with the id paired
\* with the clicked choice; no promise is resolved more than once.
C9_ResolvesOnClick ==
    \A p \in 1..Len(prompts) :
        LET pr == prompts[p] IN
        /\ pr.state = "pending" <=> ClicksOn(p) = {}
        /\ pr.resolveCalls <= 1
        /\ pr.state = "fulfilled" =>
             /\ Cardinality(ClicksOn(p)) = 1
             /\ \A j \in ClicksOn(p) :
                  IF pr.kind = "message"
                  THEN clicks[j].pos = 0 /\ pr.value = 0
                  ELSE /\ clicks[j].pos \in 1..Len(pr.choices)
                       /\ pr.value = pr.choices[clicks[j].pos][2]

\* displayChoices answered by its second choice, whose id differs from the
\* first's.
C9_Witness ==
    \E p \in 1..Len(prompts) :
        /\ prompts[p].kind = "choices"
        /\ prompts[p].choices = <<<<"yes", 1>>, <<"no", 2>>>>
        /\ prompts[p].state = "fulfilled"
        /\ prompts[p].value = 2
        /\ \E j \in ClicksOn(p) : clicks[j].pos = 2

\* C10: with several prompts outstanding, a click removes every button of
\* its own prompt and none of another, and resolves its own promise only;
\* when every prompt is answered the container is empty.
C10_ClickRemovesOwnButtons ==
    /\ \A p \in 1..Len(prompts) :
         LET pr == prompts[p] IN
         /\ pr.state = "fulfilled" => ButtonsOf(p) = {}
         /\ pr.state = "pending" =>
              /\ ClicksOn(p) = {}
              /\ Cardinality(ButtonsOf(p)) =
                     IF pr.kind = "message" THEN 1 ELSE Len(pr.choices)
    /\ (\A p \in 1..Len(prompts) : prompts[p].state = "fulfilled") =>
           choicesContainer = <<>>

\* Two prompts outstanding at once: the later one answered, the earlier one
\* still pending with its buttons in place.
C10_Witness ==
    \E q \in 1..Len(prompts) : \E p \in 1..Len(prompts) :
        /\ q < p
        /\ prompts[q].state = "pending"
        /\ ButtonsOf(q) # {}
        /\ prompts[p].state = "fulfilled"
        /\ prompts[p].kind = "choices"

====
